---- MODULE Spec2Model ----
(***************************************************************************)
(* A model of github-code-display: the repository walker, the tree         *)
(* builder, the listing renderer, the file fetcher and the page handler    *)
(* that drives them (src/src/lib/githubAPI.ts, src/src/app/page.tsx).      *)
(*                                                                         *)
(* Strings are sequences of one-character strings, so that includes,       *)
(* split, endsWith and localeCompare are computed as the code computes     *)
(* them.  A literal of the source that is only ever appended to a text is  *)
(* kept as one token of that text.  TLA+ strings are ASCII: the token      *)
(* BranchMark stands for the four characters U+251C U+2500 U+2500 U+0020.  *)
(***************************************************************************)
EXTENDS Naturals, Integers, Sequences, FiniteSets, TLC

VARIABLES
    repo,        \* the remote repository: entries in the provider's enumeration order
    maxDepth,    \* fetchRepositoryContents' maxDepth
    startPath,   \* fetchRepositoryContents' path of the outermost call
    stack,       \* the walker's call frames, innermost last
    fileMap,     \* the Map<string, string | null>, as its entries in insertion order
    walk,        \* "idle" | "running" | "returned" | "threw": the outermost call
    walkErr,     \* the message of the Error the walker threw
    requests,    \* every request issued so far, in order
    failedAt,    \* 0, or the index in requests of the listing request that failed
    skipped,     \* directories the walker saw at depth = maxDepth
    pc,          \* handleFetchRepository's position
    branch,      \* what getDefaultBranch returned
    branchOutcome, \* the outcome of the metadata request
    fileListText, \* page.tsx's fileListText
    rest,        \* the entries of fileMap the content loop has still to visit
    fileContentsText, \* page.tsx's fileContentsText
    fetchLog,    \* per visited file: [path, outcome, result]
    outputText,  \* useState outputText
    error,       \* useState error
    isLoading,   \* useState isLoading
    flat,        \* the flat map handed to organizeFileStructure (tree specification)
    flat2,       \* the same entries in another insertion order
    tree,        \* organizeFileStructure's result, as created nodes in creation order
    listing,     \* generateIndentedFileList's result for flat
    listing2,    \* ... for flat2
    listingAgain,\* ... for flat, rendered a second time
    tpc          \* position of the tree specification

walkVars == <<repo, maxDepth, startPath, stack, fileMap, walk, walkErr, requests,
              failedAt, skipped>>
pageVars == <<pc, branch, branchOutcome, fileListText, rest, fileContentsText, fetchLog,
              outputText, error, isLoading>>
treeVars == <<flat, flat2, tree, listing, listing2, listingAgain, tpc>>
vars == <<walkVars, pageVars, treeVars>>

----------------------------------------------------------------------------
(* Bounds *)

\* the walker is called with maxDepth in 0..MaxMaxDepth
MaxMaxDepth == 2
\* flat maps handed to the tree builder hold at most MaxFlat entries
MaxFlat == 3

\* the default of the maxDepth parameter
DefaultMaxDepth == 3

----------------------------------------------------------------------------
(* Values *)

Null == <<"<null>">>
Undefined == <<"<undefined>">>
Truthy(v) == v \notin {Null, Undefined, <<>>}

Max(a, b) == IF a > b THEN a ELSE b

----------------------------------------------------------------------------
(* String primitives *)

\* String.prototype.includes
Includes(s, pat) ==
    \E i \in 1..(Len(s) + 1) :
        /\ i + Len(pat) - 1 <= Len(s)
        /\ SubSeq(s, i, i + Len(pat) - 1) = pat

\* String.prototype.endsWith
EndsWith(s, suf) ==
    /\ Len(suf) <= Len(s)
    /\ SubSeq(s, Len(s) - Len(suf) + 1, Len(s)) = suf

\* String.prototype.split with a one-character separator: cur is the part being
\* read, from character i on
RECURSIVE SplitFrom(_, _, _, _)
SplitFrom(s, sep, i, cur) ==
    IF i > Len(s) THEN <<cur>>
    ELSE IF s[i] = sep THEN <<cur>> \o SplitFrom(s, sep, i + 1, <<>>)
    ELSE SplitFrom(s, sep, i + 1, Append(cur, s[i]))

Split(s, sep) == SplitFrom(s, sep, 1, <<>>)

\* Array.prototype.join
RECURSIVE Join(_, _)
Join(parts, sep) ==
    IF parts = <<>> THEN <<>>
    ELSE IF Len(parts) = 1 THEN parts[1]
    ELSE parts[1] \o sep \o Join(Tail(parts), sep)

UpperChars == <<"A","B","C","D","E","F","G","H","I","J","K","L","M",
                "N","O","P","Q","R","S","T","U","V","W","X","Y","Z">>
LowerChars == <<"a","b","c","d","e","f","g","h","i","j","k","l","m",
                "n","o","p","q","r","s","t","u","v","w","x","y","z">>

UpperSet == {UpperChars[i] : i \in 1..26}

IsUpper(c) == c \in UpperSet

LowerOf == [c \in UpperSet |-> LowerChars[CHOOSE i \in 1..26 : UpperChars[i] = c]]

\* String.prototype.toLowerCase, one character
LowerChar(c) == IF IsUpper(c) THEN LowerOf[c] ELSE c

ToLowerCase(s) == [i \in 1..Len(s) |-> LowerChar(s[i])]

\* The collation order of the characters file names are made of here (CLDR root:
\* punctuation, then digits, then letters; case is a tertiary difference).
CollOrder == <<"_","-",".","/","0","1","2","3","4","5","6","7","8","9">> \o LowerChars

CollRankOf ==
    [c \in {CollOrder[i] : i \in 1..Len(CollOrder)} |->
        CHOOSE i \in 1..Len(CollOrder) : CollOrder[i] = c]

CollRank(c) == CollRankOf[LowerChar(c)]

\* -1, 0 or 1: the sequences of numbers a and b compared lexicographically
LexCompare(a, b) ==
    LET n == IF Len(a) < Len(b) THEN Len(a) ELSE Len(b)
        D == {i \in 1..n : a[i] # b[i]}
    IN  IF D = {}
        THEN IF Len(a) < Len(b) THEN -1 ELSE IF Len(a) > Len(b) THEN 1 ELSE 0
        ELSE LET i == CHOOSE j \in D : \A k \in D : j <= k
             IN  IF a[i] < b[i] THEN -1 ELSE 1

\* String.prototype.localeCompare: the primary keys decide; when they are equal
\* the first difference of case does, lower case first
LocaleCompare(s, t) ==
    LET prim == LexCompare([i \in 1..Len(s) |-> CollRank(s[i])],
                           [i \in 1..Len(t) |-> CollRank(t[i])])
    IN  IF prim # 0 THEN prim
        ELSE LexCompare([i \in 1..Len(s) |-> IF IsUpper(s[i]) THEN 1 ELSE 0],
                        [i \in 1..Len(t) |-> IF IsUpper(t[i]) THEN 1 ELSE 0])

----------------------------------------------------------------------------
(* PatternFilter *)

ignorePatterns == {
    <<".","g","i","t">>,
    <<"n","o","d","e","_","m","o","d","u","l","e","s">>,
    <<".","D","S","_","S","t","o","r","e">>,
    <<".","e","n","v">>,
    <<".","v","s","c","o","d","e">>,
    <<".","i","d","e","a">>,
    <<".","n","e","x","t">>,
    <<"b","u","i","l","d">>,
    <<"d","i","s","t">>,
    <<"o","u","t">> }

\* shouldIgnoreFile's test by whole name, not by substring
shouldIgnoreFileExact(filename) == filename \in ignorePatterns

shouldIgnoreFile(filename) == \E pattern \in ignorePatterns : Includes(filename, pattern)

binaryExtensions == {
    <<".","i","c","o">>,
    <<".","j","p","g">>,
    <<".","j","p","e","g">>,
    <<".","p","n","g">>,
    <<".","g","i","f">>,
    <<".","b","m","p">>,
    <<".","w","e","b","p">>,
    <<".","s","v","g">>,
    <<".","p","d","f">>,
    <<".","z","i","p">>,
    <<".","t","a","r">>,
    <<".","g","z">>,
    <<".","r","a","r">>,
    <<".","e","x","e">>,
    <<".","d","l","l">>,
    <<".","s","o">>,
    <<".","d","y","l","i","b">>,
    <<".","j","a","r">>,
    <<".","w","a","r">>,
    <<".","e","a","r">>,
    <<".","m","p","3">>,
    <<".","m","p","4">>,
    <<".","a","v","i">>,
    <<".","m","o","v">>,
    <<".","m","k","v">>,
    <<".","t","t","f">>,
    <<".","o","t","f">>,
    <<".","w","o","f","f">>,
    <<".","w","o","f","f","2">>,
    <<".","p","y","c">>,
    <<".","p","y","o">>,
    <<".","c","l","a","s","s">>,
    <<".","b","i","n">>,
    <<".","d","a","t">>,
    <<".","d","b">>,
    <<".","s","q","l","i","t","e">> }

\* isBinaryFile without the toLowerCase
isBinaryFileCaseSensitive(filename) == \E ext \in binaryExtensions : EndsWith(filename, ext)

isBinaryFile(filename) == \E ext \in binaryExtensions : EndsWith(ToLowerCase(filename), ext)

----------------------------------------------------------------------------
(* The remote repository and the provider's contents API *)

Slash == <<"/">>

Owner == <<"o">>
RepoName == <<"r">>
Main == <<"m","a","i","n">>
Dev == <<"d","e","v">>
\* a branch name with a '/' in it
Feature == <<"f","/","x">>

\* The entries a repository of the model may hold: a directory is given with the
\* segments of its path, and holds at least one of the entries below it.
Universe == <<
    [segs |-> << <<"a">> >>,                                       type |-> "dir"],
    [segs |-> << <<"a">>, <<"b",".","t","x","t">> >>,              type |-> "file"],
    [segs |-> << <<"a">>, <<"c">> >>,                              type |-> "dir"],
    [segs |-> << <<"a">>, <<"c">>, <<"d">> >>,                     type |-> "dir"],
    [segs |-> << <<"a">>, <<"c">>, <<"d">>, <<"e">> >>,            type |-> "file"],
    [segs |-> << <<"a">>, <<"o","u","t">> >>,                      type |-> "dir"],
    [segs |-> << <<"a">>, <<"o","u","t">>, <<"x">> >>,             type |-> "file"],
    [segs |-> << <<"B">> >>,                                       type |-> "file"],
    [segs |-> << <<"l","a","y","o","u","t">> >>,                   type |-> "file"],
    [segs |-> << <<"z",".","P","N","G">> >>,                       type |-> "file"] >>

\* the text of each file of Universe
FileText(path) ==
    CASE path = <<"a","/","b",".","t","x","t">> -> <<"x","\n","y">>
      [] path = <<"B">> -> <<"h","i">>
      [] path = <<"a","/","c","/","d","/","e">> -> <<"a">>
      [] OTHER -> <<>>

ParentSegs(segs) == SubSeq(segs, 1, Len(segs) - 1)

\* A git tree: closed under parents, and without empty directories
IsTree(S) ==
    \A i \in S :
        /\ Len(Universe[i].segs) > 1 =>
               \E j \in S : Universe[j].segs = ParentSegs(Universe[i].segs)
        /\ Universe[i].type = "dir" =>
               \E j \in S : ParentSegs(Universe[j].segs) = Universe[i].segs

\* The entries of S as a sequence, in the order of Universe or in the reverse order
RECURSIVE Enumerate(_, _, _)
Enumerate(S, i, up) ==
    IF i < 1 \/ i > Len(Universe) THEN <<>>
    ELSE (IF i \in S THEN <<Universe[i]>> ELSE <<>>)
         \o Enumerate(S, IF up THEN i + 1 ELSE i - 1, up)

Repos ==
    {Enumerate(S, 1, TRUE) : S \in {T \in SUBSET (1..Len(Universe)) : IsTree(T)}}
    \cup {Enumerate(S, Len(Universe), FALSE) :
              S \in {T \in SUBSET (1..Len(Universe)) : IsTree(T)}}

PathOf(segs) == Join(segs, Slash)

\* 'https://raw.githubusercontent.com/', in the pieces the code takes it apart by
RawPrefix == <<"https://", "raw.githubusercontent.com", "/">>

\* download_url of the file at path on ref, as the provider gives it
DownloadUrl(ref, path) ==
    RawPrefix \o Owner \o Slash \o RepoName \o Slash \o ref \o Slash \o path

\* One item of a contents response
Item(e, ref) ==
    [name |-> e.segs[Len(e.segs)],
     path |-> PathOf(e.segs),
     type |-> e.type,
     download_url |-> IF e.type = "file" THEN DownloadUrl(ref, PathOf(e.segs)) ELSE Null]

Exists(r, path) == path = <<>> \/ \E i \in 1..Len(r) : PathOf(r[i].segs) = path
IsFileIn(r, path) == \E i \in 1..Len(r) : PathOf(r[i].segs) = path /\ r[i].type = "file"

ChildrenOf(r, path) ==
    LET under(e) == IF path = <<>> THEN Len(e.segs) = 1
                    ELSE Len(e.segs) > 1 /\ PathOf(ParentSegs(e.segs)) = path
    IN  SelectSeq(r, under)

\* The body of GET /repos/{owner}/{repo}/contents/{path}?ref={ref}: an array for
\* a directory, an object for a file
ContentsData(r, path, ref) ==
    IF IsFileIn(r, path)
    THEN LET e == r[CHOOSE i \in 1..Len(r) : PathOf(r[i].segs) = path]
         IN  [kind |-> "object"] @@ Item(e, ref)
    ELSE LET c == ChildrenOf(r, path)
         IN  [kind |-> "list", items |-> [i \in 1..Len(c) |-> Item(c[i], ref)]]

\* The body of an error response: {"message": ...}
ErrorData ==
    [kind |-> "object", name |-> Undefined, path |-> Undefined, type |-> Undefined,
     download_url |-> Undefined]

\* statusText is empty over HTTP/2
StatusTexts == {<<>>, <<"Not Found">>}

\* The ref the provider resolves a request with: the branch asked for, or the
\* repository's default branch
RefOf(br) == IF Truthy(br) THEN br ELSE Main

ContentsResponse(r, path, br, ok, statusText) ==
    IF ok THEN [ok |-> TRUE, statusText |-> <<"OK">>, data |-> ContentsData(r, path, RefOf(br))]
    ELSE [ok |-> FALSE, statusText |-> statusText, data |-> ErrorData]

----------------------------------------------------------------------------
(* Map<string, string | null> as its entries in insertion order *)

MapHas(m, k) == \E i \in 1..Len(m) : m[i].key = k
MapGet(m, k) == m[CHOOSE i \in 1..Len(m) : m[i].key = k].val
\* Map.prototype.set: a key that is present keeps its place
MapSet(m, k, v) ==
    IF MapHas(m, k)
    THEN [i \in 1..Len(m) |-> IF m[i].key = k THEN [key |-> k, val |-> v] ELSE m[i]]
    ELSE Append(m, [key |-> k, val |-> v])
MapKeys(m) == {m[i].key : i \in 1..Len(m)}

----------------------------------------------------------------------------
(* RepositoryWalker: fetchRepositoryContents *)

ListingRequest(path, br) ==
    [kind |-> "listing", path |-> path, ref |-> IF Truthy(br) THEN br ELSE Undefined]

\* A call fetchRepositoryContents(..., path, depth, maxDepth, fileMap): it returns
\* at once past maxDepth, and otherwise issues its request and awaits it
Enter(stk, reqs, path, depth, br) ==
    IF depth > maxDepth
    THEN [stack |-> stk, requests |-> reqs]
    ELSE [stack |-> Append(stk, [path |-> path, depth |-> depth, st |-> "await",
                                 items |-> <<>>]),
          requests |-> Append(reqs, ListingRequest(path, br))]

\* the walker treating every response as a success
ListingFailedNever(resp) == FALSE

\* !response.ok
ListingFailed(resp) == ~resp.ok

\* the single-object branch dropping the entry
RecordSingleNothing(m, data) == m

\* fileMap.set(data.path, data.download_url)
RecordSingle(m, data) == MapSet(m, data.path, data.download_url)

RecordFile(m, item) == MapSet(m, item.path, item.download_url)

\* the walker recursing without recording the directory
RecordDirectoryNothing(m, item) == m

\* fileMap.set(item.path, null)
RecordDirectory(m, item) == MapSet(m, item.path, Null)

\* item.type === 'dir' && depth <= maxDepth
RecurseIntoInclusive(item, depth) == item.type = "dir" /\ depth <= maxDepth

\* item.type === 'dir' && depth < maxDepth
RecurseInto(item, depth) == item.type = "dir" /\ depth < maxDepth

Top == stack[Len(stack)]
Popped == SubSeq(stack, 1, Len(stack) - 1)

\* the frame on top returns to its caller
ReturnTo(stk) ==
    /\ stack' = stk
    /\ walk' = IF stk = <<>> THEN "returned" ELSE "running"

\* The awaited contents response arrives
ListingResponse ==
    /\ walk = "running"
    /\ stack # <<>>
    /\ Top.st = "await"
    /\ \E ok \in BOOLEAN, statusText \in StatusTexts :
        /\ ok => Exists(repo, Top.path) /\ statusText = <<"Not Found">>
        /\ LET resp == ContentsResponse(repo, Top.path, branch, ok, statusText)
           IN  IF ListingFailed(resp)
               THEN \* throw new Error(...), rethrown by every frame
                    /\ walk' = "threw"
                    /\ walkErr' = <<"GitHub API error: ">> \o resp.statusText
                    /\ stack' = <<>>
                    /\ UNCHANGED fileMap
               ELSE IF resp.data.kind # "list"
               THEN /\ fileMap' = RecordSingle(fileMap, resp.data)
                    /\ ReturnTo(Popped)
                    /\ UNCHANGED walkErr
               ELSE /\ stack' = [stack EXCEPT ![Len(stack)] =
                                    [@ EXCEPT !.st = "loop", !.items = resp.data.items]]
                    /\ UNCHANGED <<fileMap, walk, walkErr>>
        /\ failedAt' = IF ok THEN failedAt ELSE Len(requests)
    /\ UNCHANGED <<repo, maxDepth, startPath, requests, skipped>>

\* One turn of the loop over the items of a listing
ProcessItem ==
    /\ walk = "running"
    /\ stack # <<>>
    /\ Top.st = "loop"
    /\ Top.items # <<>>
    /\ LET item == Head(Top.items)
           stk == [stack EXCEPT ![Len(stack)] = [@ EXCEPT !.items = Tail(@)]]
       IN  IF shouldIgnoreFile(item.name)
           THEN /\ stack' = stk
                /\ UNCHANGED <<fileMap, requests, skipped>>
           ELSE IF item.type = "file"
           THEN /\ fileMap' = RecordFile(fileMap, item)
                /\ stack' = stk
                /\ UNCHANGED <<requests, skipped>>
           ELSE IF RecurseInto(item, Top.depth)
           THEN LET e == Enter(stk, requests, item.path, Top.depth + 1, branch)
                IN  /\ fileMap' = RecordDirectory(fileMap, item)
                    /\ stack' = e.stack
                    /\ requests' = e.requests
                    /\ UNCHANGED skipped
           ELSE /\ stack' = stk
                /\ skipped' = IF item.type = "dir" THEN skipped \cup {item.path}
                              ELSE skipped
                /\ UNCHANGED <<fileMap, requests>>
    /\ UNCHANGED <<repo, maxDepth, startPath, walk, walkErr, failedAt>>

\* The loop is over: return fileMap
WalkReturn ==
    /\ walk = "running"
    /\ stack # <<>>
    /\ Top.st = "loop"
    /\ Top.items = <<>>
    /\ ReturnTo(Popped)
    /\ UNCHANGED <<repo, maxDepth, startPath, fileMap, walkErr, requests, failedAt,
                   skipped>>

\* The paths fetchRepositoryContents is called with: the root, an entry of the
\* repository, or a path the repository does not hold
StartPaths(r) == {<<>>, <<"n","o">>} \cup {PathOf(r[i].segs) : i \in 1..Len(r)}

pageIdle ==
    /\ pc = "lib"
    /\ branchOutcome = "none"
    /\ fileListText = <<>>
    /\ rest = <<>>
    /\ fileContentsText = <<>>
    /\ fetchLog = <<>>
    /\ outputText = <<>>
    /\ error = <<>>
    /\ isLoading = FALSE

treeIdle ==
    /\ flat = <<>>
    /\ flat2 = <<>>
    /\ tree = <<>>
    /\ listing = <<>>
    /\ listing2 = <<>>
    /\ listingAgain = <<>>
    /\ tpc = "lib"

\* fetchRepositoryContents(owner, repo, token, branch, path, 0, maxDepth)
InitWalk ==
    /\ repo \in Repos
    /\ maxDepth \in 0..MaxMaxDepth
    /\ startPath \in StartPaths(repo)
    /\ branch = Main
    /\ fileMap = <<>>
    /\ stack = << [path |-> startPath, depth |-> 0, st |-> "await", items |-> <<>>] >>
    /\ requests = << ListingRequest(startPath, Main) >>
    /\ walk = "running"
    /\ walkErr = <<>>
    /\ failedAt = 0
    /\ skipped = {}
    /\ pageIdle
    /\ treeIdle

NextWalk ==
    \/ ListingResponse /\ UNCHANGED <<pageVars, treeVars>>
    \/ ProcessItem /\ UNCHANGED <<pageVars, treeVars>>
    \/ WalkReturn /\ UNCHANGED <<pageVars, treeVars>>

SpecWalk == InitWalk /\ [][NextWalk]_vars

----------------------------------------------------------------------------
(* Claims about the walker, checked under SpecWalk *)

\* the name contains an ignore pattern as a substring
ContainsIgnorePattern(name) ==
    \E p \in ignorePatterns : \E i \in 1..Len(name) :
        i + Len(p) - 1 <= Len(name) /\ \A k \in 1..Len(p) : name[i + k - 1] = p[k]

\* some segment of the path (the entry's own name, or the name of a directory
\* above it) contains an ignore pattern
HasIgnoredSegment(path) ==
    LET parts == Split(path, "/")
    IN  \E i \in 1..Len(parts) : ContainsIgnorePattern(parts[i])

\* the paths of the directories above path
AncestorsOf(path) ==
    LET parts == Split(path, "/")
    IN  {Join(SubSeq(parts, 1, n), Slash) : n \in 1..(Len(parts) - 1)}

\* C1 as stated: whatever the response shape, and so whatever path the walk is
\* started at, no key of the flat map is an entry whose name contains an ignore
\* pattern, or lies below a directory whose name does.
C1_NoIgnoredKey ==
    \A i \in 1..Len(fileMap) : ~HasIgnoredSegment(fileMap[i].key)

\* C1 amended: when no segment of the path the walk is started at contains an
\* ignore pattern (the root in particular), no key of the flat map has a segment
\* that contains one.
C1_NoIgnoredKeyFromCleanStart ==
    ~HasIgnoredSegment(startPath) => C1_NoIgnoredKey

\* a walk from the root has returned after listing a directory that holds an
\* ignored directory and recording a file beside it, and has seen a file whose
\* name merely contains a pattern
C1_Witness ==
    /\ walk = "returned"
    /\ startPath = <<>>
    /\ MapHas(fileMap, <<"a","/","b",".","t","x","t">>)
    /\ Exists(repo, <<"a","/","o","u","t","/","x">>)
    /\ Exists(repo, <<"l","a","y","o","u","t">>)

\* C2 as stated: a directory met at depth = maxDepth that is not ignored is a key
\* of the flat map with a null locator, no listing request is issued for it, and
\* a walk of the root with maxDepth = 0 returns exactly the first-level entries
\* that are not ignored.
C2_LeafDirectoriesRecorded ==
    /\ \A p \in skipped :
        /\ MapHas(fileMap, p) /\ MapGet(fileMap, p) = Null
        /\ \A i \in 1..Len(requests) : requests[i].path # p
    /\ (walk = "returned" /\ maxDepth = 0 /\ startPath = <<>>) =>
           MapKeys(fileMap) =
               {PathOf(repo[i].segs) : i \in {j \in 1..Len(repo) :
                    /\ Len(repo[j].segs) = 1
                    /\ ~ContainsIgnorePattern(repo[j].segs[1])}}

----------------------------------------------------------------------------
(* TreeBuilder: organizeFileStructure *)

\* (a, b) => a[0].localeCompare(b[0])
ComparePaths(a, b) == LocaleCompare(a.key, b.key)

\* children ordered by name alone
CompareNodesByName(a, b) == LocaleCompare(a.name, b.name)

\* directories first, then by name
CompareNodes(a, b) ==
    IF a.isDirectory # b.isDirectory
    THEN IF a.isDirectory THEN -1 ELSE 1
    ELSE LocaleCompare(a.name, b.name)

\* the comparator handed to sort: of entries ("paths") or of nodes ("nodes")
Compare(by, a, b) == IF by = "paths" THEN ComparePaths(a, b) ELSE CompareNodes(a, b)

\* Array.prototype.sort: a stable sort
StableSort(s, by) ==
    LET F[n \in 0..Len(s)] ==
            IF n = 0 THEN <<>>
            ELSE LET x == s[n]
                     r == F[n - 1]
                     \* x goes behind every element that does not sort after it
                     k == Cardinality({i \in 1..Len(r) :
                                          \A j \in 1..i : Compare(by, r[j], x) <= 0})
                 IN  SubSeq(r, 1, k) \o <<x>> \o SubSeq(r, k + 1, Len(r))
    IN  F[Len(s)]

\* the entries taken in insertion order
UnsortedEntries(m) == m

\* Array.from(fileMap.entries()).sort((a, b) => a[0].localeCompare(b[0]))
SortedEntries(m) == StableSort(m, "paths")

\* A tree is the sequence of its nodes below the root in creation order; parent
\* is the index of the parent node, 0 for the root.  The children of a node, in
\* the order of its children Map, are the nodes naming it as parent, in order.
ChildIndex(t, parent, name) ==
    {i \in 1..Len(t) : t[i].parent = parent /\ t[i].name = name}

\* every segment of a file's path made a file node
IsCurrentDirectoryOfEntry(isLastPart, isDirectory) == isDirectory

\* !isLastPart || isDirectory
IsCurrentDirectory(isLastPart, isDirectory) == ~isLastPart \/ isDirectory

\* One entry of the sorted entries: the loop over pathParts from part i on
RECURSIVE AddParts(_, _, _, _, _, _)
AddParts(t, pathParts, i, currentNode, currentPath, url) ==
    IF i > Len(pathParts) THEN t
    ELSE LET part == pathParts[i]
             path == IF currentPath # <<>> THEN currentPath \o Slash \o part ELSE part
             isLastPart == i = Len(pathParts)
             has == ChildIndex(t, currentNode, part) # {}
             t2 == IF has THEN t
                   ELSE Append(t, [name |-> part,
                                   path |-> path,
                                   isDirectory |-> IsCurrentDirectory(isLastPart, url = Null),
                                   url |-> IF isLastPart THEN url ELSE Null,
                                   parent |-> currentNode])
             next == CHOOSE n \in ChildIndex(t2, currentNode, part) : TRUE
         IN  AddParts(t2, pathParts, i + 1, next, path, url)

RECURSIVE AddEntries(_, _, _)
AddEntries(t, entries, k) ==
    IF k > Len(entries) THEN t
    ELSE AddEntries(AddParts(t, Split(entries[k].key, "/"), 1, 0, <<>>, entries[k].val),
                    entries, k + 1)

organizeFileStructure(m) == AddEntries(<<>>, SortedEntries(m), 1)

----------------------------------------------------------------------------
(* Renderer: generateIndentedFileList *)

\* stands for the literal of four characters U+251C U+2500 U+2500 U+0020
BranchMark == "|-- "

Spaces(n) == [i \in 1..n |-> " "]

\* the children of node n (0: the root), each with its index, sorted
SortedChildren(t, n) ==
    LET idx == SelectSeq([i \in 1..Len(t) |-> i], LAMBDA i : t[i].parent = n)
        kids == [k \in 1..Len(idx) |-> [i |-> idx[k], name |-> t[idx[k]].name,
                                        isDirectory |-> t[idx[k]].isDirectory]]
    IN  StableSort(kids, "nodes")

\* one level of indentation per level
IndentPerLevel(level) == Spaces(4 * level)

\* level > 1 ? '    '.repeat(level - 1) : ''
Indent(level) == IF level > 1 THEN Spaces(4 * (level - 1)) ELSE <<>>

RECURSIVE RenderNode(_, _, _)
RECURSIVE RenderChildren(_, _, _, _)
RenderChildren(t, kids, k, level) ==
    IF k > Len(kids) THEN <<>>
    ELSE RenderNode(t, kids[k].i, level + 1) \o RenderChildren(t, kids, k + 1, level)

RenderNode(t, n, level) ==
    IF level = 0 THEN RenderChildren(t, SortedChildren(t, n), 1, level)
    ELSE IF t[n].isDirectory
    THEN Indent(level) \o <<BranchMark>> \o t[n].name \o <<"/", "\n">>
         \o RenderChildren(t, SortedChildren(t, n), 1, level)
    ELSE Indent(level) \o <<BranchMark>> \o t[n].name \o <<"\n">>

generateIndentedFileList(t) == RenderNode(t, 0, 0)

----------------------------------------------------------------------------
(* The tree builder and the renderer applied to flat maps *)

FlatKeys == {
    <<"a">>,
    <<"a","/","b",".","t","x","t">>,
    <<"a","/","c","/","d">>,
    <<"B">> }

FlatEntries ==
    {[key |-> k, val |-> v] : k \in FlatKeys, v \in {Null}} \cup
    {[key |-> k, val |-> DownloadUrl(Main, k)] : k \in FlatKeys}

\* the flat maps of n entries: the keys of a Map are unique
FlatMaps(n) ==
    {f \in [1..n -> FlatEntries] : \A i, j \in 1..n : i # j => f[i].key # f[j].key}

Orderings(n) == {g \in [1..n -> 1..n] : \A i, j \in 1..n : i # j => g[i] # g[j]}

walkIdle ==
    /\ repo = <<>>
    /\ maxDepth = DefaultMaxDepth
    /\ startPath = <<>>
    /\ stack = <<>>
    /\ fileMap = <<>>
    /\ walk = "idle"
    /\ walkErr = <<>>
    /\ requests = <<>>
    /\ failedAt = 0
    /\ skipped = {}

InitTree ==
    /\ \E n \in 0..MaxFlat :
        /\ flat \in FlatMaps(n)
        /\ \E g \in Orderings(n) : flat2 = [i \in 1..n |-> flat[g[i]]]
    /\ tree = <<>>
    /\ listing = <<>>
    /\ listing2 = <<>>
    /\ listingAgain = <<>>
    /\ tpc = "start"
    /\ branch = Main
    /\ walkIdle
    /\ pageIdle

\* organizeFileStructure then generateIndentedFileList, on flat and on flat2
Organize ==
    /\ tpc = "start"
    /\ tree' = organizeFileStructure(flat)
    /\ listing' = generateIndentedFileList(tree')
    /\ listing2' = generateIndentedFileList(organizeFileStructure(flat2))
    /\ tpc' = "rendered"
    /\ UNCHANGED <<flat, flat2, listingAgain>>

\* generateIndentedFileList on the tree that was rendered already
RenderAgain ==
    /\ tpc = "rendered"
    /\ listingAgain' = generateIndentedFileList(tree)
    /\ tpc' = "again"
    /\ UNCHANGED <<flat, flat2, tree, listing, listing2>>

NextTree ==
    \/ Organize /\ UNCHANGED <<walkVars, pageVars>>
    \/ RenderAgain /\ UNCHANGED <<walkVars, pageVars>>

SpecTree == InitTree /\ [][NextTree]_vars

----------------------------------------------------------------------------
(* Claims about the tree builder and the renderer, checked under SpecTree *)

\* no entry with a locator lies above another entry: the flat maps whose trees
\* keep files as leaves
FilesAreLeavesIn(m) ==
    \A i, j \in 1..Len(m) : m[i].val # Null => m[i].key \notin AncestorsOf(m[j].key)

HasChildren(t, n) == \E i \in 1..Len(t) : t[i].parent = n

\* every path that is a key or lies above a key
PrefixesOf(m) == UNION {AncestorsOf(m[i].key) \cup {m[i].key} : i \in 1..Len(m)}

IsPrefixOf(s, t) == Len(s) <= Len(t) /\ SubSeq(t, 1, Len(s)) = s

\* the tree after the first k sorted entries
TreeAfter(m, k) == AddEntries(<<>>, SubSeq(SortedEntries(m), 1, k), 1)

TreeShape(m, t) ==
    /\ \A n \in 1..Len(t) :
        /\ (~t[n].isDirectory /\ t[n].url # Null) => ~HasChildren(t, n)
        /\ HasChildren(t, n) => t[n].isDirectory
    \* one node for each path prefix
    /\ {t[n].path : n \in 1..Len(t)} = PrefixesOf(m)
    /\ \A n1, n2 \in 1..Len(t) : t[n1].path = t[n2].path => n1 = n2
    \* a node that was created is never changed by a later entry
    /\ \A k \in 0..(Len(m) - 1) : IsPrefixOf(TreeAfter(m, k), TreeAfter(m, k + 1))
    /\ TreeAfter(m, Len(m)) = t

\* C9 as stated: for any flat map, a file node has no children, a node with
\* children is a directory node, and each path prefix has exactly one node,
\* which no later entry overwrites.
C9_TreeShapeAnyMap ==
    tpc # "start" => TreeShape(flat, tree)

\* C9 amended: the same, for the flat maps in which no entry with a non-null
\* locator lies above another entry.
C9_TreeShape ==
    (tpc # "start" /\ FilesAreLeavesIn(flat)) => TreeShape(flat, tree)

\* a tree of three levels was built from a file entry and its directory entry,
\* the directory entry inserted last
C9_Witness ==
    /\ tpc = "rendered"
    /\ FilesAreLeavesIn(flat)
    /\ Len(flat) = 3
    /\ flat[1].val # Null
    /\ flat[3].val = Null
    /\ flat[3].key \in AncestorsOf(flat[1].key)
    /\ \E n \in 1..Len(tree) : Len(Split(tree[n].path, "/")) = 3

\* C6: the listing of a flat map is that of the same entries inserted in any
\* other order, and rendering the tree again gives the same text.
C6_OrderIndependent ==
    /\ tpc # "start" => listing = listing2
    /\ tpc = "again" => listingAgain = listing

\* three entries, none in the place the sort gives it, were rendered twice and
\* in another order
C6_Witness ==
    /\ tpc = "again"
    /\ Len(flat) = 3
    /\ flat2 # flat
    /\ \A i \in 1..3 : SortedEntries(flat)[i] # flat[i]
    /\ listing # <<>>

\* The lines of a listing: each is its indentation, the mark, a name and, for a
\* directory, a slash
ListingLines(text) ==
    LET parts == Split(text, "\n") IN SubSeq(parts, 1, Len(parts) - 1)

LeadingSpaces(line) ==
    Cardinality({i \in 1..Len(line) : \A j \in 1..i : line[j] = " "})

ParseLine(line) ==
    LET ind == LeadingSpaces(line)
        body == SubSeq(line, ind + 2, Len(line))
        dir == body # <<>> /\ body[Len(body)] = "/"
    IN  [indent |-> ind,
         marked |-> Len(line) > ind /\ line[ind + 1] = BranchMark,
         isDirectory |-> dir,
         name |-> IF dir THEN SubSeq(body, 1, Len(body) - 1) ELSE body]

\* the line of the parent of line i: the nearest line above it one level up
ParentLine(ls, i) ==
    LET c == {j \in 1..(i - 1) : ls[j].indent = ls[i].indent - 4}
    IN  IF c = {} THEN 0 ELSE CHOOSE j \in c : \A k \in c : k <= j

RECURSIVE LinePath(_, _)
LinePath(ls, i) ==
    IF ParentLine(ls, i) = 0 THEN ls[i].name
    ELSE LinePath(ls, ParentLine(ls, i)) \o Slash \o ls[i].name

ExampleMap ==
    << [key |-> <<"a","/","b",".","t","x","t">>,
        val |-> DownloadUrl(Main, <<"a","/","b",".","t","x","t">>)],
       [key |-> <<"a">>, val |-> Null] >>

ExampleListing ==
    <<BranchMark, "a", "/", "\n",
      " ", " ", " ", " ", BranchMark, "b", ".", "t", "x", "t", "\n">>

----------------------------------------------------------------------------
(* ContentFetcher: fetchFileContent *)

\* the characters of codes 32 to 126, in order (a TLA+ string cannot hold the
\* character of code 96)
Printable == <<
    " ", "!", "\"", "#", "$", "%", "&", "'", "(", ")", "*", "+", ",", "-", ".", "/",
    "0", "1", "2", "3", "4", "5", "6", "7", "8", "9", ":", ";", "<", "=", ">", "?",
    "@", "A", "B", "C", "D", "E", "F", "G", "H", "I", "J", "K", "L", "M", "N", "O",
    "P", "Q", "R", "S", "T", "U", "V", "W", "X", "Y", "Z", "[", "\\", "]", "^", "_",
    "<backtick>", "a", "b", "c", "d", "e", "f", "g", "h", "i", "j", "k", "l", "m", "n", "o",
    "p", "q", "r", "s", "t", "u", "v", "w", "x", "y", "z", "{", "|", "}", "~" >>

\* the code unit of a character of a text
CodeOf(c) ==
    IF c = "\n" THEN 10
    ELSE 31 + CHOOSE i \in 1..Len(Printable) : Printable[i] = c

\* String.fromCharCode, for the bytes atob yields
CharOf(n) ==
    IF n = 10 THEN "\n"
    ELSE IF n >= 32 /\ n <= 126 THEN Printable[n - 31]
    ELSE "?"

Base64Alphabet ==
    UpperChars \o LowerChars \o <<"0","1","2","3","4","5","6","7","8","9","+","/">>

IsBase64Char(c) == \E i \in 1..64 : Base64Alphabet[i] = c
Base64Value(c) == (CHOOSE i \in 1..64 : Base64Alphabet[i] = c) - 1

\* The provider's encoding of a file's bytes: base64 in lines of 60 characters,
\* each ended by a newline
RECURSIVE EncodeFrom(_, _)
EncodeFrom(b, i) ==
    LET left == Len(b) - i + 1
        b1 == b[i]
        b2 == IF left >= 2 THEN b[i + 1] ELSE 0
        b3 == IF left >= 3 THEN b[i + 2] ELSE 0
        n == b1 * 65536 + b2 * 256 + b3
        c(k) == Base64Alphabet[((n \div (64 ^ (4 - k))) % 64) + 1]
    IN  IF left <= 0 THEN <<>>
        ELSE IF left = 1 THEN <<c(1), c(2), "=", "=">>
        ELSE IF left = 2 THEN <<c(1), c(2), c(3), "=">>
        ELSE <<c(1), c(2), c(3), c(4)>> \o EncodeFrom(b, i + 3)

RECURSIVE WrapLines(_)
WrapLines(e) ==
    IF e = <<>> THEN <<>>
    ELSE IF Len(e) <= 60 THEN e \o <<"\n">>
    ELSE SubSeq(e, 1, 60) \o <<"\n">> \o WrapLines(SubSeq(e, 61, Len(e)))

ProviderBase64(text) == WrapLines(EncodeFrom([i \in 1..Len(text) |-> CodeOf(text[i])], 1))

\* content.replace(/\n/g, '')
RemoveNewlines(str) == SelectSeq(str, LAMBDA c : c # "\n")

\* content.replace('\n', ''): the first newline only
RemoveFirstNewline(str) ==
    LET at == {i \in 1..Len(str) : str[i] = "\n"}
    IN  IF at = {} THEN str
        ELSE LET i == CHOOSE j \in at : \A k \in at : j <= k
             IN  SubSeq(str, 1, i - 1) \o SubSeq(str, i + 1, Len(str))

RECURSIVE DecodeFrom(_, _)
DecodeFrom(v, i) ==
    LET left == Len(v) - i + 1
        n4 == v[i] * 262144 + v[i + 1] * 4096 + v[i + 2] * 64 + v[i + 3]
        n3 == (v[i] * 4096 + v[i + 1] * 64 + v[i + 2]) \div 4
        n2 == (v[i] * 64 + v[i + 1]) \div 16
    IN  IF left <= 0 THEN <<>>
        ELSE IF left >= 4
        THEN <<CharOf(n4 \div 65536), CharOf((n4 \div 256) % 256), CharOf(n4 % 256)>>
             \o DecodeFrom(v, i + 4)
        ELSE IF left = 3 THEN <<CharOf(n3 \div 256), CharOf(n3 % 256)>>
        ELSE <<CharOf(n2)>>

\* atob: [threw, value].  Padding is dropped from data whose length is a multiple
\* of four; a length of 4n + 1, or a character outside the alphabet, throws.
atob(data) ==
    LET n == Len(data)
        pad == IF n % 4 = 0 /\ n >= 2 /\ data[n] = "=" /\ data[n - 1] = "=" THEN 2
               ELSE IF n % 4 = 0 /\ n >= 1 /\ data[n] = "=" THEN 1
               ELSE 0
        d == SubSeq(data, 1, n - pad)
    IN  IF Len(d) % 4 = 1 \/ \E i \in 1..Len(d) : ~IsBase64Char(d[i])
        THEN [threw |-> TRUE, value |-> <<"The string to be decoded is not correctly encoded.">>]
        ELSE [threw |-> FALSE,
              value |-> DecodeFrom([i \in 1..Len(d) |-> Base64Value(d[i])], 1)]

ApiPrefix == <<"https://", "api.github.com", "/repos/">>

\* Replace the first occurrence of pat in str by nothing
RemoveFirst(str, pat) ==
    LET at == {i \in 1..Len(str) : i + Len(pat) - 1 <= Len(str)
                                   /\ SubSeq(str, i, i + Len(pat) - 1) = pat}
    IN  IF at = {} THEN str
        ELSE LET i == CHOOSE j \in at : \A k \in at : j <= k
             IN  SubSeq(str, 1, i - 1) \o SubSeq(str, i + Len(pat), Len(str))

\* The address fetchFileContent requests: a raw-host address is rewritten to the
\* contents API
ApiUrlOf(url) ==
    IF Includes(url, <<"raw.githubusercontent.com">>)
    THEN LET parts == Split(RemoveFirst(url, RawPrefix), "/")
             at(i) == IF i <= Len(parts) THEN parts[i] ELSE Undefined
         IN  ApiPrefix \o at(1) \o Slash \o at(2) \o <<"/contents/">>
             \o Join(SubSeq(parts, 4, Len(parts)), Slash) \o <<"?ref=">> \o at(3)
    ELSE url

JsonType == <<"application/json", "; charset=utf-8">>
RawType == <<"application/vnd.github.v3.raw", "; charset=utf-8">>

\* JSON.stringify of the contents object of a file
JsonText(data) ==
    <<"{\"content\":\"">> \o data.content \o <<"\",\"encoding\":\"">> \o data.encoding
    \o <<"\"}">>

\* The responses to the request for the file at path
FileResponses(path) ==
    { \* the raw media type was honoured
      [kind |-> "raw", rejects |-> FALSE, ok |-> TRUE, status |-> <<"2","0","0">>,
       statusText |-> <<"OK">>, contentType |-> RawType, json |-> Undefined,
       bodyText |-> FileText(path)],
      \* the contents object, base64
      [kind |-> "json64", rejects |-> FALSE, ok |-> TRUE, status |-> <<"2","0","0">>,
       statusText |-> <<"OK">>, contentType |-> JsonType,
       json |-> [content |-> ProviderBase64(FileText(path)), encoding |-> <<"base64">>],
       bodyText |-> JsonText([content |-> ProviderBase64(FileText(path)),
                              encoding |-> <<"base64">>])],
      \* the contents object of a file too large to be inlined
      [kind |-> "jsonNone", rejects |-> FALSE, ok |-> TRUE, status |-> <<"2","0","0">>,
       statusText |-> <<"OK">>, contentType |-> JsonType,
       json |-> [content |-> <<>>, encoding |-> <<"none">>],
       bodyText |-> JsonText([content |-> <<>>, encoding |-> <<"none">>])],
      [kind |-> "notOk", rejects |-> FALSE, ok |-> FALSE, status |-> <<"4","0","4">>,
       statusText |-> <<"Not Found">>, contentType |-> JsonType, json |-> Undefined,
       bodyText |-> <<"boom">>],
      \* the transport fails
      [kind |-> "rejects", rejects |-> TRUE, ok |-> FALSE, status |-> <<>>,
       statusText |-> <<>>, contentType |-> Null, json |-> Undefined,
       bodyText |-> <<>>] }

BodyUsedMessage == "Body is unusable: Body has already been read"

\* response.text(): a body can be read once
ReadText(resp, bodyUsed) ==
    IF bodyUsed THEN [threw |-> TRUE, value |-> <<BodyUsedMessage>>]
    ELSE [threw |-> FALSE, value |-> resp.bodyText]

\* fetchFileContent, given the response to its request: [threw, value], value
\* the string returned or the message of the Error thrown
fetchFileContent(url, resp) ==
    IF resp.rejects THEN [threw |-> TRUE, value |-> <<"Failed to fetch">>]
    ELSE IF ~resp.ok
    THEN [threw |-> TRUE,
          value |-> <<"Failed to fetch file: ">> \o resp.status \o <<" ">>
                    \o resp.statusText \o <<" - ">> \o ReadText(resp, FALSE).value]
    ELSE IF resp.contentType # Null /\ Includes(resp.contentType, <<"application/json">>)
    THEN \* const data = await response.json()
         LET data == resp.json
         IN  IF Truthy(data.content) /\ data.encoding = <<"base64">>
             THEN atob(RemoveNewlines(data.content))
             ELSE ReadText(resp, TRUE)
    ELSE ReadText(resp, FALSE)

----------------------------------------------------------------------------
(* BranchResolver: getDefaultBranch *)

\* The outcomes of GET /repos/{owner}/{repo}: the body of a success names the
\* default branch, or does not
BranchOutcomes ==
    { [kind |-> "notOk", default_branch |-> Undefined],
      [kind |-> "throws", default_branch |-> Undefined],
      [kind |-> "badJson", default_branch |-> Undefined],
      [kind |-> "ok", default_branch |-> Dev],
      [kind |-> "ok", default_branch |-> Feature],
      [kind |-> "ok", default_branch |-> Undefined] }

\* getDefaultBranch without its test of response.ok and its catch
getDefaultBranchUnchecked(outcome) == outcome.default_branch

getDefaultBranch(outcome) ==
    IF outcome.kind = "throws" THEN Main            \* fetch rejects: catch
    ELSE IF outcome.kind = "notOk" THEN Main        \* !response.ok
    ELSE IF outcome.kind = "badJson" THEN Main      \* response.json() throws: catch
    ELSE outcome.default_branch

----------------------------------------------------------------------------
(* The page: handleFetchRepository *)

GithubToken == Undefined

\* What the user submits: a text new URL() parses to a hostname and a pathname,
\* or one it throws on
Urls ==
    { [parses |-> TRUE, hostname |-> <<"g","i","t","h","u","b",".","c","o","m">>,
       pathname |-> Slash \o Owner \o Slash \o RepoName],
      [parses |-> TRUE, hostname |-> <<"g","i","t","h","u","b",".","c","o","m">>,
       pathname |-> Slash \o Owner],
      [parses |-> TRUE, hostname |-> <<"g","i","t",".","i","o">>,
       pathname |-> Slash \o Owner \o Slash \o RepoName],
      [parses |-> FALSE, hostname |-> <<>>, pathname |-> <<>>] }

\* parsedUrl.pathname.split('/').filter(Boolean)
PathSegments(url) == SelectSeq(Split(url.pathname, "/"), LAMBDA x : x # <<>>)

\* stands for the message of page.tsx line 42
InvalidRepoUrlMessage == "invalid repository URL"
\* stands for the message of page.tsx line 107
DefaultErrorMessage == "an error occurred while processing"

\* The Error the parsing of the URL throws, or <<>>
UrlError(url) ==
    IF ~url.parses THEN <<"Invalid URL">>
    ELSE IF Len(PathSegments(url)) < 2
            \/ ~Includes(url.hostname, <<"g","i","t","h","u","b",".","c","o","m">>)
    THEN <<InvalidRepoUrlMessage>>
    ELSE <<>>

\* err.message || '...'
FatalMessage(message) == IF Truthy(message) THEN message ELSE <<DefaultErrorMessage>>

\* '\n' + 80 dashes + '\n'
DelimOpen == "\n--------------------------------------------------------------------------------\n"
\* 80 dashes + '\n'
DelimClose == "--------------------------------------------------------------------------------\n"

RECURSIVE Digits(_)
\* Number.prototype.toString
Digits(n) ==
    IF n < 10 THEN <<Printable[17 + n]>>
    ELSE Digits(n \div 10) \o <<Printable[17 + (n % 10)]>>

\* String.prototype.padStart(width, ' ')
PadStart(str, width) == Spaces(IF Len(str) < width THEN width - Len(str) ELSE 0) \o str

BlockHead(path) == <<DelimOpen, "/">> \o path \o <<":", "\n", DelimClose>>

RECURSIVE NumberedLines(_, _)
NumberedLines(lines, k) ==
    IF k > Len(lines) THEN <<>>
    ELSE PadStart(Digits(k), 3) \o <<" | ">> \o lines[k] \o <<"\n">>
         \o NumberedLines(lines, k + 1)

ContentBlock(path, content) ==
    BlockHead(path) \o NumberedLines(Split(content, "\n"), 1) \o <<"\n">>

\* the catch of the content loop appending nothing
ErrorBlockNothing(path, message, url) == <<>>

\* the labels stand for the literals of page.tsx lines 90 and 92
ErrorBlock(path, message, url) ==
    BlockHead(path)
    \o <<"error: ">> \o (IF Truthy(message) THEN message ELSE <<"Unknown error">>) \o <<"\n">>
    \o <<"URL: ">> \o url \o <<"\n">>
    \o <<"token: ">> \o (IF Truthy(GithubToken) THEN <<"yes">> ELSE <<"no">>) \o <<"\n", "\n">>

\* the line stands for the literal of page.tsx line 99
BinaryBlock(path) == BlockHead(path) \o <<"binary file, skipped", "\n", "\n">>

\* handleFetchRepository(url), up to its first await
Submit ==
    /\ pc = "idle"
    /\ \E url \in Urls :
        IF UrlError(url) # <<>>
        THEN /\ error' = FatalMessage(UrlError(url))
             /\ isLoading' = FALSE
             /\ pc' = "done"
             /\ UNCHANGED requests
        ELSE /\ error' = <<>>
             /\ isLoading' = TRUE
             /\ pc' = "branch"
             /\ requests' = Append(requests, [kind |-> "repo", path |-> <<>>,
                                              ref |-> Undefined])
    /\ outputText' = <<>>
    /\ UNCHANGED <<repo, maxDepth, startPath, stack, fileMap, walk, walkErr, failedAt,
                   skipped, branch, branchOutcome, fileListText, rest,
                   fileContentsText, fetchLog>>

\* getDefaultBranch settles, and fetchRepositoryContents is called
BranchResponse ==
    /\ pc = "branch"
    /\ \E outcome \in BranchOutcomes :
        /\ branchOutcome' = outcome.kind
        /\ branch' = getDefaultBranch(outcome)
        /\ LET e == Enter(<<>>, requests, <<>>, 0, branch')
           IN  /\ stack' = e.stack
               /\ requests' = e.requests
               /\ walk' = IF e.stack = <<>> THEN "returned" ELSE "running"
    /\ pc' = "walk"
    /\ UNCHANGED <<repo, maxDepth, startPath, fileMap, walkErr, failedAt, skipped,
                   fileListText, rest, fileContentsText, fetchLog, outputText, error,
                   isLoading>>

\* the walk returned: the listing is rendered and the content loop begins
WalkReturned ==
    /\ pc = "walk"
    /\ walk = "returned"
    /\ fileListText' = generateIndentedFileList(organizeFileStructure(fileMap))
    /\ fileContentsText' = <<>>
    /\ rest' = fileMap
    /\ pc' = "loop"
    /\ UNCHANGED <<walkVars, branch, branchOutcome, fetchLog, outputText, error,
                   isLoading>>

\* the walk threw: the catch and the finally of handleFetchRepository
WalkThrew ==
    /\ pc = "walk"
    /\ walk = "threw"
    /\ error' = FatalMessage(walkErr)
    /\ isLoading' = FALSE
    /\ pc' = "done"
    /\ UNCHANGED <<walkVars, branch, branchOutcome, fileListText, rest,
                   fileContentsText, fetchLog, outputText>>

\* One turn of the loop over rootContents.entries(), up to its await
LoopStep ==
    /\ pc = "loop"
    /\ rest # <<>>
    /\ LET path == Head(rest).key
           url == Head(rest).val
       IN  IF Truthy(url) /\ ~isBinaryFile(path)
           THEN /\ requests' = Append(requests, [kind |-> "file", path |-> ApiUrlOf(url),
                                                 ref |-> Undefined])
                /\ pc' = "fetch"
                /\ UNCHANGED <<rest, fileContentsText>>
           ELSE IF Truthy(url) /\ isBinaryFile(path)
           THEN /\ fileContentsText' = fileContentsText \o BinaryBlock(path)
                /\ rest' = Tail(rest)
                /\ UNCHANGED <<requests, pc>>
           ELSE /\ rest' = Tail(rest)
                /\ UNCHANGED <<requests, pc, fileContentsText>>
    /\ UNCHANGED <<repo, maxDepth, startPath, stack, fileMap, walk, walkErr, failedAt,
                   skipped, branch, branchOutcome, fileListText, fetchLog, outputText,
                   error, isLoading>>

\* fetchFileContent settles: the block of the file, or the block of its error
FileResponse ==
    /\ pc = "fetch"
    /\ LET path == Head(rest).key
           url == Head(rest).val
       IN  \E resp \in FileResponses(path) :
            LET r == fetchFileContent(url, resp)
            IN  /\ fileContentsText' = fileContentsText \o
                       (IF r.threw THEN ErrorBlock(path, r.value, url)
                        ELSE ContentBlock(path, r.value))
                /\ fetchLog' = Append(fetchLog,
                       [path |-> path, kind |-> resp.kind, ok |-> resp.ok,
                        bodyText |-> resp.bodyText, threw |-> r.threw,
                        value |-> r.value])
    /\ rest' = Tail(rest)
    /\ pc' = "loop"
    /\ UNCHANGED <<walkVars, branch, branchOutcome, fileListText, outputText, error,
                   isLoading>>

\* setOutputText(fileListText + fileContentsText), and the finally
Finish ==
    /\ pc = "loop"
    /\ rest = <<>>
    /\ outputText' = fileListText \o fileContentsText
    /\ isLoading' = FALSE
    /\ pc' = "done"
    /\ UNCHANGED <<walkVars, branch, branchOutcome, fileListText, rest,
                   fileContentsText, fetchLog, error>>

Init ==
    /\ repo \in Repos
    /\ maxDepth = DefaultMaxDepth
    /\ startPath = <<>>
    /\ stack = <<>>
    /\ fileMap = <<>>
    /\ walk = "idle"
    /\ walkErr = <<>>
    /\ requests = <<>>
    /\ failedAt = 0
    /\ skipped = {}
    /\ pc = "idle"
    /\ branch = Undefined
    /\ branchOutcome = "none"
    /\ fileListText = <<>>
    /\ rest = <<>>
    /\ fileContentsText = <<>>
    /\ fetchLog = <<>>
    /\ outputText = <<>>
    /\ error = <<>>
    /\ isLoading = FALSE
    /\ treeIdle

Next ==
    \/ Submit /\ UNCHANGED treeVars
    \/ BranchResponse /\ UNCHANGED treeVars
    \/ ListingResponse /\ UNCHANGED <<pageVars, treeVars>>
    \/ ProcessItem /\ UNCHANGED <<pageVars, treeVars>>
    \/ WalkReturn /\ UNCHANGED <<pageVars, treeVars>>
    \/ WalkReturned /\ UNCHANGED treeVars
    \/ WalkThrew /\ UNCHANGED treeVars
    \/ LoopStep /\ UNCHANGED treeVars
    \/ FileResponse /\ UNCHANGED treeVars
    \/ Finish /\ UNCHANGED treeVars

Spec == Init /\ [][Next]_vars

----------------------------------------------------------------------------
(* Properties of the page run *)

\* the requests issued after the k-th
RequestsAfter(k) == SubSeq(requests, k + 1, Len(requests))

\* C3: when a listing response of the walk is not a success, no request of any
\* kind is issued after the request it answers, no content is rendered, and
\* the run ends with the output text empty and the error message set
C3_ListingFailureIsFatal ==
    failedAt # 0 =>
        /\ RequestsAfter(failedAt) = <<>>
        /\ fileContentsText = <<>>
        /\ pc \in {"walk", "done"}
        /\ pc = "done" => outputText = <<>> /\ error # <<>> /\ ~isLoading

\* a listing below the root has failed after entries were recorded, and the
\* run has ended
C3_Witness ==
    /\ failedAt > 2
    /\ fileMap # <<>>
    /\ pc = "done"
    /\ Includes(error, <<"GitHub API error: ">>)

\* The entries of the flat map the content loop is done with
Visited == SubSeq(fileMap, 1, Len(fileMap) - Len(rest))

\* The places of fileContentsText where a block begins
BlockStarts ==
    LET F[i \in 0..Len(fileContentsText)] ==
            IF i = 0 THEN <<>>
            ELSE IF fileContentsText[i] = DelimOpen THEN Append(F[i - 1], i)
            ELSE F[i - 1]
    IN  F[Len(fileContentsText)]

\* The k-th block: from its opening delimiter up to the next one
BlockAt(k) ==
    SubSeq(fileContentsText, BlockStarts[k],
           IF k < Len(BlockStarts) THEN BlockStarts[k + 1] - 1
           ELSE Len(fileContentsText))

\* The path a block is headed with: what stands between "/" and ":" in the
\* line the two delimiters enclose
HeaderPath(block) ==
    LET close == CHOOSE i \in 1..Len(block) : block[i] = DelimClose
    IN  SubSeq(block, 3, close - 3)

WellFormedBlock(block) ==
    /\ Len(block) >= 5
    /\ block[1] = DelimOpen
    /\ block[2] = "/"
    /\ \E i \in 5..Len(block) :
        /\ block[i] = DelimClose
        /\ block[i - 1] = "\n"
        /\ block[i - 2] = ":"
        /\ \A j \in 1..(i - 1) : block[j] # DelimClose

\* The keys of the visited entries whose locator is not null, in map order
ExpectedHeaders ==
    LET e == SelectSeq(Visited, LAMBDA x : x.val # Null)
    IN  [i \in 1..Len(e) |-> e[i].key]

\* C4: once the walk has returned, the rendered contents hold exactly one
\* block per visited entry with a non-null locator, in the order of the map,
\* and none for a null locator; a fetch that failed left a block for its path
\* that contains the message of the failure, the later entries are still
\* rendered, and the run ends with the output set and no fatal error
C4_OneBlockPerLocator ==
    (walk = "returned" /\ pc \in {"loop", "fetch", "done"}) =>
        /\ \A k \in 1..Len(BlockStarts) : WellFormedBlock(BlockAt(k))
        /\ [k \in 1..Len(BlockStarts) |-> HeaderPath(BlockAt(k))] = ExpectedHeaders
        /\ \A i \in 1..Len(fetchLog) :
            fetchLog[i].threw =>
                \E k \in 1..Len(BlockStarts) :
                    /\ HeaderPath(BlockAt(k)) = fetchLog[i].path
                    /\ Includes(BlockAt(k), fetchLog[i].value)
        /\ pc = "done" =>
            /\ rest = <<>>
            /\ error = <<>>
            /\ outputText = fileListText \o fileContentsText

\* a fetch failed with the body "boom", a later file was fetched and rendered,
\* a directory was passed over, and the run has ended
C4_Witness ==
    /\ pc = "done"
    /\ walk = "returned"
    /\ \E i, j \in 1..Len(fetchLog) :
        /\ i < j
        /\ fetchLog[i].threw
        /\ Includes(fetchLog[i].value, <<"boom">>)
        /\ ~fetchLog[j].threw
    /\ \E i \in 1..Len(fileMap) : fileMap[i].val = Null
    /\ Len(BlockStarts) >= 3

\* C5: whenever the repository request was not a success, threw, or carried a
\* body that does not parse, getDefaultBranch returned "main" and the walk was
\* started with it: the listing of the root was requested on ref "main"
C5_BranchFallback ==
    branchOutcome \in {"notOk", "throws", "badJson"} =>
        /\ branch = Main
        /\ walk # "idle"
        /\ Len(requests) >= 2
        /\ requests[2] = [kind |-> "listing", path |-> <<>>, ref |-> Main]

\* the body of the repository response did not parse, and the walk ran to its end
C5_Witness ==
    /\ branchOutcome = "badJson"
    /\ walk = "returned"
    /\ fileMap # <<>>

\* C10: for every successful response fetchFileContent returns a string: the
\* decoded content when the response is JSON with base64 content, and the
\* body text unchanged otherwise
C10_SuccessReturnsText ==
    \A i \in 1..Len(fetchLog) :
        fetchLog[i].ok =>
            /\ ~fetchLog[i].threw
            /\ fetchLog[i].value = IF fetchLog[i].kind = "json64"
                                   THEN FileText(fetchLog[i].path)
                                   ELSE fetchLog[i].bodyText

----------------------------------------------------------------------------
(* Properties of the rewritten locator *)

\* The place of the first token tok in str, 0 when there is none
TokenAt(str, tok) ==
    LET at == {i \in 1..Len(str) : str[i] = tok}
    IN  IF at = {} THEN 0 ELSE CHOOSE i \in at : \A j \in at : i <= j

\* What an address of the contents API,
\* https://api.github.com/repos/{owner}/{repo}/contents/{path}?ref={ref},
\* designates: the owner is what precedes the first '/' behind the prefix
Designated(api) ==
    LET c == TokenAt(api, "/contents/")
        q == TokenAt(api, "?ref=")
        ownerRepo == SubSeq(api, Len(ApiPrefix) + 1, c - 1)
        s == TokenAt(ownerRepo, "/")
    IN  [owner |-> SubSeq(ownerRepo, 1, s - 1),
         repo |-> SubSeq(ownerRepo, s + 1, Len(ownerRepo)),
         path |-> SubSeq(api, c + 1, q - 1),
         ref |-> SubSeq(api, q + 1, Len(api))]

\* C11: when the content of a recorded file is requested, its locator being
\* the raw-host address of its path on the branch walked, the address
\* fetchFileContent requests designates the same owner, repository, branch
\* (as ref) and path, for every branch name, with or without a '/'
C11_RewriteDesignatesSameFile ==
    (/\ pc = "fetch"
     /\ Head(rest).val = DownloadUrl(RefOf(branch), Head(rest).key)) =>
        LET api == requests[Len(requests)].path
        IN  /\ SubSeq(api, 1, Len(ApiPrefix)) = ApiPrefix
            /\ Designated(api) = [owner |-> Owner, repo |-> RepoName,
                                  path |-> Head(rest).key, ref |-> RefOf(branch)]

====
